---- MODULE Spec2Model ----
(***************************************************************************)
(* Model of simulate.py: SimulationManager.run_scenarios driving one       *)
(* ScenarioRunner per scenario of the configuration file, with             *)
(* SimulationManager.stop delivered by the signal handler between any two  *)
(* steps of the single thread of control.                                  *)
(*                                                                         *)
(* Durations are whole seconds.  random.uniform(0, d) is any whole number  *)
(* of 0..d, random.randint(1, m) any number of 1..m.  asyncio.sleep(d) is  *)
(* d ticks of the clock followed by the wake-up of the coroutine.          *)
(***************************************************************************)
EXTENDS Integers, Sequences, FiniteSets, TLC

\* ------------------------------------------------------------- bounds
MaxTimes == 4
MaxK == 2
MaxBlock == 2
MaxDelay == 2
MaxScen == 2
DriverTimes == 1

\* ------------------------------------------------------------- values
\* Optional[...] = None of ScenarioConfig, and a key absent from the YAML
\* mapping, are encoded as integers outside every parameter range.
None == -100
Missing == -200

KnownTypes ==
    {"no_delay", "random_delay", "fixed_delay_block", "random_delay_block",
     "random_block_size_fixed_delay", "random_block_size_random_delay"}

\* "burst" stands for any type string that calculate_delay does not test for.
Types == KnownTypes \cup {"burst"}

ScenarioConfig(t, n, md, kk, fd, mbs) ==
    [type |-> t, times |-> n, max_delay |-> md, k |-> kk,
     fixed_delay |-> fd, max_block_size |-> mbs]

Delays == {None} \cup (0..MaxDelay)
Ks == {None} \cup (-1..MaxK)
Blocks == {None} \cup (-1..MaxBlock)

\* The parameters a type does not read are left at their default, None.
ParamsOf(t, n) ==
    CASE t = "random_delay" ->
           {ScenarioConfig(t, n, md, None, None, None) : md \in Delays}
      [] t = "fixed_delay_block" ->
           {ScenarioConfig(t, n, None, kk, fd, None) : kk \in Ks, fd \in Delays}
      [] t = "random_delay_block" ->
           {ScenarioConfig(t, n, md, kk, None, None) : kk \in Ks, md \in Delays}
      [] t = "random_block_size_fixed_delay" ->
           {ScenarioConfig(t, n, None, None, fd, mbs) : fd \in Delays, mbs \in Blocks}
      [] t = "random_block_size_random_delay" ->
           {ScenarioConfig(t, n, md, None, None, mbs) : md \in Delays, mbs \in Blocks}
      [] OTHER -> {ScenarioConfig(t, n, None, None, None, None)}

\* Every scenario of the bounded parameter space, run alone.
ScenarioSet ==
    UNION {ParamsOf(t, n) : t \in Types, n \in {Missing} \cup (0..MaxTimes)}

\* The scenarios of the multi-scenario configuration files.
DriverScenarioSet ==
    {ScenarioConfig("no_delay", n, None, None, None, None) :
        n \in {Missing} \cup (0..DriverTimes)}
    \cup {ScenarioConfig("fixed_delay_block", DriverTimes + 1, None, kk, 1, None) :
        kk \in {0, 1}}
    \cup {ScenarioConfig("burst", DriverTimes, None, None, None, None)}

ConfigFiles ==
    {<<s>> : s \in ScenarioSet}
    \cup UNION {[1..n -> DriverScenarioSet] : n \in 0..MaxScen}

\* ------------------------------------------------------------- state
VARIABLES
    config,       \* the "scenarios" list of the YAML file
    scenarios,    \* run_scenarios' local list of ScenarioConfig
    pc,           \* position of the thread of control
    idx,          \* run_scenarios' loop index (enumerate from 1)
    runners,      \* SimulationManager.runners
    reports,      \* SimulationManager.reports
    stop_event,   \* SimulationManager._stop_event
    i,            \* ScenarioRunner.run's loop index
    remaining,    \* seconds left of the asyncio.sleep in progress
    in_flight     \* subprocess.run calls executing in executor threads

vars ==
    <<config, scenarios, pc, idx, runners, reports, stop_event, i, remaining,
      in_flight>>

ScenarioReport ==
    [execution_times |-> <<>>, delay_times |-> <<>>,
     success_count |-> 0, failure_count |-> 0]

\* ScenarioRunner.__init__; delay_log records every value line 232 received,
\* slept the seconds the runner has spent in asyncio.sleep.
ScenarioRunner(cfg, name) ==
    [config |-> cfg, name |-> name, stop_event |-> FALSE, shutdown |-> FALSE,
     report |-> ScenarioReport, delay_log |-> <<>>, slept |-> 0]

cur == Len(runners)
self == runners[cur]

Init ==
    /\ config \in ConfigFiles
    /\ scenarios = <<>>
    /\ pc = "load"
    /\ idx = 0
    /\ runners = <<>>
    /\ reports = <<>>
    /\ stop_event = FALSE
    /\ i = 0
    /\ remaining = 0
    /\ in_flight = 0

\* ------------------------------------------------------------- calculate_delay
\* An outcome of a call: a returned value, or an exception raised.
Return(v) == [raised |-> FALSE, value |-> v]
Raise == [raised |-> TRUE, value |-> 0]

\* Python's a % b for an integer b # 0: the result has the sign of b.
PyMod(a, b) == IF b > 0 THEN a % b ELSE -((-a) % (-b))

\* Mutant: the block boundary is tested on the 0-based index.
AtBlockEnd_ZeroBased(current, kk) ==
    IF kk = None \/ kk = 0 THEN {"raise"}
    ELSE IF PyMod(current, kk) = 0 THEN {"true"} ELSE {"false"}

\* (current + 1) % self.config.k == 0: TypeError on None, ZeroDivisionError on 0.
AtBlockEnd(current, kk) ==
    IF kk = None \/ kk = 0 THEN {"raise"}
    ELSE IF PyMod(current + 1, kk) = 0 THEN {"true"} ELSE {"false"}

\* Mutant: the draw ranges over twice the interval.
uniform_Doubled(md) == IF md = None THEN {Raise} ELSE {Return(v) : v \in 0..(2 * md)}

\* random.uniform(0, max_delay): TypeError on None.
uniform(md) == IF md = None THEN {Raise} ELSE {Return(v) : v \in 0..md}

\* Mutant: the range of the draw starts at 0.
randint_FromZero(mbs) ==
    IF mbs = None \/ mbs < 1 THEN {Raise} ELSE {Return(v) : v \in 0..mbs}

\* random.randint(1, max_block_size): TypeError on None, ValueError on an
\* empty range.
randint(mbs) ==
    IF mbs = None \/ mbs < 1 THEN {Raise} ELSE {Return(v) : v \in 1..mbs}

\* random.randint(1, max_block_size) == 1
DrawsOne(mbs) ==
    {IF r.raised THEN "raise" ELSE IF r.value = 1 THEN "true" ELSE "false" :
        r \in randint(mbs)}

\* "values if cond else 0": the condition is evaluated first, and the value
\* only when the condition is true.
Conditional(conds, values) ==
    UNION {IF c = "raise" THEN {Raise}
           ELSE IF c = "true" THEN values
           ELSE {Return(0)} : c \in conds}

\* Mutant: the boundary test lets the final index through.
PastLast_OffByOne(cfg, current) == current >= cfg.times

PastLast(cfg, current) == current >= cfg.times - 1

\* Mutant: the fall-through of the type tests returns 1 instead of 0.
calculate_delay_DefaultOne(cfg, current) ==
    IF PastLast(cfg, current) THEN {Return(0)}
    ELSE CASE cfg.type = "random_delay" -> uniform(cfg.max_delay)
           [] cfg.type = "fixed_delay_block" ->
                Conditional(AtBlockEnd(current, cfg.k), {Return(cfg.fixed_delay)})
           [] cfg.type = "random_delay_block" ->
                Conditional(AtBlockEnd(current, cfg.k), uniform(cfg.max_delay))
           [] cfg.type = "random_block_size_fixed_delay" ->
                Conditional(DrawsOne(cfg.max_block_size), {Return(cfg.fixed_delay)})
           [] cfg.type = "random_block_size_random_delay" ->
                Conditional(DrawsOne(cfg.max_block_size), uniform(cfg.max_delay))
           [] OTHER -> {Return(1)}

calculate_delay(cfg, current) ==
    IF PastLast(cfg, current) THEN {Return(0)}
    ELSE CASE cfg.type = "random_delay" -> uniform(cfg.max_delay)
           [] cfg.type = "fixed_delay_block" ->
                Conditional(AtBlockEnd(current, cfg.k), {Return(cfg.fixed_delay)})
           [] cfg.type = "random_delay_block" ->
                Conditional(AtBlockEnd(current, cfg.k), uniform(cfg.max_delay))
           [] cfg.type = "random_block_size_fixed_delay" ->
                Conditional(DrawsOne(cfg.max_block_size), {Return(cfg.fixed_delay)})
           [] cfg.type = "random_block_size_random_delay" ->
                Conditional(DrawsOne(cfg.max_block_size), uniform(cfg.max_delay))
           [] OTHER -> {Return(0)}

\* ------------------------------------------------------------- run_scenarios
SetSelf(r) == runners' = [runners EXCEPT ![cur] = r]

\* ScenarioConfig(**scenario) raises TypeError for a mapping without a
\* required key; main logs it and exits with status 1.
Loadable(cfg) == \A j \in DOMAIN cfg : cfg[j].times # Missing

LoadConfigError ==
    /\ pc = "load"
    /\ ~Loadable(config)
    /\ pc' = "exit1"
    /\ UNCHANGED <<config, scenarios, idx, runners, reports, stop_event, i,
                   remaining, in_flight>>

LoadConfig ==
    /\ pc = "load"
    /\ Loadable(config)
    /\ scenarios' = config
    /\ idx' = 1
    /\ pc' = "m_for"
    /\ UNCHANGED <<config, runners, reports, stop_event, i, remaining, in_flight>>

\* for i, scenario_config in enumerate(scenarios, 1): the list is exhausted
DriverExhausted ==
    /\ pc = "m_for"
    /\ idx > Len(scenarios)
    /\ pc' = "m_final"
    /\ UNCHANGED <<config, scenarios, idx, runners, reports, stop_event, i,
                   remaining, in_flight>>

\* if self._stop_event.is_set(): break
DriverBreak ==
    /\ pc = "m_for"
    /\ idx <= Len(scenarios)
    /\ stop_event
    /\ pc' = "m_final"
    /\ UNCHANGED <<config, scenarios, idx, runners, reports, stop_event, i,
                   remaining, in_flight>>

DriverNext ==
    /\ pc = "m_for"
    /\ idx <= Len(scenarios)
    /\ ~stop_event
    /\ pc' = "m_new"
    /\ UNCHANGED <<config, scenarios, idx, runners, reports, stop_event, i,
                   remaining, in_flight>>

\* runner = ScenarioRunner(scenario_config); self.runners.append(runner);
\* runner.run() up to its loop
NewRunner ==
    /\ pc = "m_new"
    /\ runners' = Append(runners, ScenarioRunner(scenarios[idx], idx))
    /\ i' = 0
    /\ pc' = "r_for"
    /\ UNCHANGED <<config, scenarios, idx, reports, stop_event, remaining, in_flight>>

\* ------------------------------------------------------------- ScenarioRunner.run
\* for i in range(self.config.times): the range is exhausted
RunnerExhausted ==
    /\ pc = "r_for"
    /\ i >= self.config.times
    /\ pc' = "r_end"
    /\ UNCHANGED <<config, scenarios, idx, runners, reports, stop_event, i,
                   remaining, in_flight>>

\* if self._stop_event.is_set(): break
RunnerBreak ==
    /\ pc = "r_for"
    /\ i < self.config.times
    /\ self.stop_event
    /\ pc' = "r_end"
    /\ UNCHANGED <<config, scenarios, idx, runners, reports, stop_event, i,
                   remaining, in_flight>>

\* Mutant: the loop runs for i = 0..times.
RunnerNext_Inclusive ==
    /\ pc = "r_for"
    /\ i <= self.config.times
    /\ ~self.stop_event
    /\ pc' = "r_submit"
    /\ UNCHANGED <<config, scenarios, idx, runners, reports, stop_event, i,
                   remaining, in_flight>>

RunnerNext ==
    /\ pc = "r_for"
    /\ i < self.config.times
    /\ ~self.stop_event
    /\ pc' = "r_submit"
    /\ UNCHANGED <<config, scenarios, idx, runners, reports, stop_event, i,
                   remaining, in_flight>>

\* Mutant: the job is handed to the executor and not awaited.
SubmitCommand_NotAwaited ==
    /\ pc = "r_submit"
    /\ ~self.shutdown
    /\ pc' = "r_for"
    /\ i' = i + 1
    /\ in_flight' = in_flight + 1
    /\ UNCHANGED <<config, scenarios, idx, runners, reports, stop_event, remaining>>

\* run_command: the executor accepts the job and the command starts
SubmitCommand ==
    /\ pc = "r_submit"
    /\ ~self.shutdown
    /\ pc' = "r_cmd"
    /\ in_flight' = in_flight + 1
    /\ UNCHANGED <<config, scenarios, idx, runners, reports, stop_event, i, remaining>>

\* run_command: submit() on an executor that was shut down raises
\* RuntimeError; the finally clause records a time, run's handler breaks
SubmitRefused ==
    /\ pc = "r_submit"
    /\ self.shutdown
    /\ SetSelf([self EXCEPT
                  !.report.execution_times = Append(@, 1)])
    /\ pc' = "r_end"
    /\ UNCHANGED <<config, scenarios, idx, reports, stop_event, i, remaining,
                   in_flight>>

\* run_command: subprocess.run returned with status 0
CommandSucceeds ==
    /\ pc = "r_cmd"
    /\ SetSelf([self EXCEPT
                  !.report.success_count = @ + 1,
                  !.report.execution_times = Append(@, 1)])
    /\ pc' = "r_delay"
    /\ in_flight' = in_flight - 1
    /\ UNCHANGED <<config, scenarios, idx, reports, stop_event, i, remaining>>

\* Mutant: a failed command is submitted again, uncounted.
CommandFails_Retry ==
    /\ pc = "r_cmd"
    /\ pc' = "r_submit"
    /\ in_flight' = in_flight - 1
    /\ UNCHANGED <<config, scenarios, idx, runners, reports, stop_event, i, remaining>>

\* Mutant: run's handler goes on with the next iteration instead of breaking.
CommandFails_Continue ==
    /\ pc = "r_cmd"
    /\ SetSelf([self EXCEPT
                  !.report.failure_count = @ + 1,
                  !.report.execution_times = Append(@, 1)])
    /\ i' = i + 1
    /\ pc' = "r_for"
    /\ in_flight' = in_flight - 1
    /\ UNCHANGED <<config, scenarios, idx, reports, stop_event, remaining>>

\* Mutant: the failure is counted but not raised again.
CommandFails_Swallowed ==
    /\ pc = "r_cmd"
    /\ SetSelf([self EXCEPT
                  !.report.failure_count = @ + 1,
                  !.report.execution_times = Append(@, 1)])
    /\ pc' = "r_delay"
    /\ in_flight' = in_flight - 1
    /\ UNCHANGED <<config, scenarios, idx, reports, stop_event, i, remaining>>

\* run_command: CalledProcessError is counted and raised again; run's
\* handler breaks
CommandFails ==
    /\ pc = "r_cmd"
    /\ SetSelf([self EXCEPT
                  !.report.failure_count = @ + 1,
                  !.report.execution_times = Append(@, 1)])
    /\ pc' = "r_end"
    /\ in_flight' = in_flight - 1
    /\ UNCHANGED <<config, scenarios, idx, reports, stop_event, i, remaining>>

\* What lines 232-237 cannot work with: an exception of calculate_delay, or a
\* None that progress.update or "delay > 0" rejects with TypeError.
Unusable(out) == out.raised \/ out.value = None

DelayError ==
    /\ pc = "r_delay"
    /\ \E out \in calculate_delay(self.config, i) : Unusable(out)
    /\ pc' = "r_end"
    /\ UNCHANGED <<config, scenarios, idx, runners, reports, stop_event, i,
                   remaining, in_flight>>

\* if delay > 0: self.report.delay_times.append(delay); asyncio.sleep(delay)
DelaySleep ==
    /\ pc = "r_delay"
    /\ \E out \in calculate_delay(self.config, i) :
         /\ ~Unusable(out)
         /\ out.value > 0
         /\ SetSelf([self EXCEPT
                       !.report.delay_times = Append(@, out.value),
                       !.delay_log = Append(@, out.value)])
         /\ remaining' = out.value
    /\ pc' = "r_sleep"
    /\ UNCHANGED <<config, scenarios, idx, reports, stop_event, i, in_flight>>

DelaySkip ==
    /\ pc = "r_delay"
    /\ \E out \in calculate_delay(self.config, i) :
         /\ ~Unusable(out)
         /\ out.value <= 0
         /\ SetSelf([self EXCEPT !.delay_log = Append(@, out.value)])
    /\ i' = i + 1
    /\ pc' = "r_for"
    /\ UNCHANGED <<config, scenarios, idx, reports, stop_event, remaining, in_flight>>

\* one second of asyncio.sleep(delay) passes
SleepTick ==
    /\ pc = "r_sleep"
    /\ remaining > 0
    /\ remaining' = remaining - 1
    /\ SetSelf([self EXCEPT !.slept = @ + 1])
    /\ UNCHANGED <<config, scenarios, pc, idx, reports, stop_event, i, in_flight>>

\* Mutant: the sleep is cut short; the coroutine goes on at once.
SleepWake_Early ==
    /\ pc = "r_sleep"
    /\ i' = i + 1
    /\ remaining' = 0
    /\ pc' = "r_for"
    /\ UNCHANGED <<config, scenarios, idx, runners, reports, stop_event, in_flight>>

\* asyncio.sleep(delay) returns
SleepWake ==
    /\ pc = "r_sleep"
    /\ remaining = 0
    /\ i' = i + 1
    /\ pc' = "r_for"
    /\ UNCHANGED <<config, scenarios, idx, runners, reports, stop_event,
                   remaining, in_flight>>

\* Mutant: a report with a failure ends the driver's loop.
RunnerReturn_Propagate ==
    /\ pc = "r_end"
    /\ reports' = Append(reports, self.report)
    /\ idx' = idx + 1
    /\ pc' = IF self.report.failure_count > 0 THEN "m_final" ELSE "m_for"
    /\ UNCHANGED <<config, scenarios, runners, stop_event, i, remaining, in_flight>>

\* run returns its report; run_scenarios appends it
RunnerReturn ==
    /\ pc = "r_end"
    /\ reports' = Append(reports, self.report)
    /\ idx' = idx + 1
    /\ pc' = "m_for"
    /\ UNCHANGED <<config, scenarios, runners, stop_event, i, remaining, in_flight>>

\* ------------------------------------------------------------- print_final_report
RECURSIVE SumExecutions(_)
SumExecutions(rs) ==
    IF rs = <<>> THEN 0
    ELSE Head(rs).success_count + Head(rs).failure_count + SumExecutions(Tail(rs))

\* total_successes/total_executions raises ZeroDivisionError on 0; main logs
\* it and exits with status 1.
FinalReportError ==
    /\ pc = "m_final"
    /\ SumExecutions(reports) = 0
    /\ pc' = "exit1"
    /\ UNCHANGED <<config, scenarios, idx, runners, reports, stop_event, i,
                   remaining, in_flight>>

FinalReport ==
    /\ pc = "m_final"
    /\ SumExecutions(reports) # 0
    /\ pc' = "done"
    /\ UNCHANGED <<config, scenarios, idx, runners, reports, stop_event, i,
                   remaining, in_flight>>

\* ------------------------------------------------------------- stop
\* ScenarioRunner.stop
RunnerStop(r) == [r EXCEPT !.stop_event = TRUE, !.shutdown = TRUE]

\* SimulationManager.stop, called by the signal handler while the process runs
Stop ==
    /\ pc \notin {"done", "exit1"}
    /\ stop_event' = TRUE
    /\ runners' = [j \in DOMAIN runners |-> RunnerStop(runners[j])]
    /\ UNCHANGED <<config, scenarios, pc, idx, reports, i, remaining, in_flight>>

Next ==
    \/ LoadConfigError \/ LoadConfig
    \/ DriverExhausted \/ DriverBreak \/ DriverNext \/ NewRunner
    \/ RunnerExhausted \/ RunnerBreak \/ RunnerNext
    \/ SubmitCommand \/ SubmitRefused \/ CommandSucceeds \/ CommandFails
    \/ DelayError \/ DelaySleep \/ DelaySkip \/ SleepTick \/ SleepWake
    \/ RunnerReturn \/ FinalReportError \/ FinalReport
    \/ Stop

Spec == Init /\ [][Next]_vars

\* The steps of the thread of control: everything but the signal handler.
Progress ==
    \/ LoadConfigError \/ LoadConfig
    \/ DriverExhausted \/ DriverBreak \/ DriverNext \/ NewRunner
    \/ RunnerExhausted \/ RunnerBreak \/ RunnerNext
    \/ SubmitCommand \/ SubmitRefused \/ CommandSucceeds \/ CommandFails
    \/ DelayError \/ DelaySleep \/ DelaySkip \/ SleepTick \/ SleepWake
    \/ RunnerReturn \/ FinalReportError \/ FinalReport

\* asyncio.run drives the coroutine as long as it can take a step: every
\* command returns, every second of a sleep passes.  Signals may or may not
\* arrive.
FairSpec == Init /\ [][Next]_vars /\ WF_vars(Progress)

\* ------------------------------------------------------------- vocabulary of the properties
InLoop == pc \in {"r_for", "r_submit", "r_cmd", "r_delay", "r_sleep"}
Running(j) == j = cur /\ InLoop
Executions(r) == r.report.success_count + r.report.failure_count
Positive(seq) == SelectSeq(seq, LAMBDA d : d > 0)

\* delay_log[n] is the delay decided after iteration index n - 1.
Decided(r) == Len(r.delay_log)
FinalDecided(r) == r.config.times >= 1 /\ Decided(r) = r.config.times

\* C1: the delay computed for the final index, times - 1, is 0 for every
\* policy kind and every times >= 1; it adds nothing to delay_times and the
\* runner never sleeps after its last repetition.
C1_NoDelayAfterFinal ==
    /\ \A j \in DOMAIN config :
         config[j].times >= 1 =>
            calculate_delay(config[j], config[j].times - 1) = {Return(0)}
    /\ \A j \in DOMAIN runners :
         LET r == runners[j] IN
         /\ FinalDecided(r) => r.delay_log[r.config.times] = 0
         /\ r.config.times >= 1 => Len(r.report.delay_times) <= r.config.times - 1
    /\ pc = "r_sleep" => i < self.config.times - 1

C1_Witness ==
    \E j \in DOMAIN runners :
       /\ FinalDecided(runners[j])
       /\ runners[j].config.times >= 2
       /\ Len(runners[j].report.delay_times) = runners[j].config.times - 1

\* C2: under fixed_delay_block with k >= 1 and fixedDelay > 0 the delay
\* decided after index n - 1 is fixedDelay when n mod k = 0 and n - 1 is not
\* the final index, and 0 otherwise; delay_times holds exactly those delays.
IsFixedBlock(cfg) ==
    /\ cfg.type = "fixed_delay_block"
    /\ cfg.k >= 1
    /\ cfg.fixed_delay > 0

C2_FixedDelayBlock ==
    \A j \in DOMAIN runners :
       LET r == runners[j]
           cfg == r.config
       IN  IsFixedBlock(cfg) =>
             /\ \A n \in 1..Decided(r) :
                  r.delay_log[n] =
                     IF n % cfg.k = 0 /\ n - 1 < cfg.times - 1
                     THEN cfg.fixed_delay ELSE 0
             /\ r.report.delay_times = Positive(r.delay_log)
             /\ (r.report.success_count = cfg.times /\ ~(j = cur /\ pc = "r_delay")) =>
                  /\ Decided(r) = cfg.times
                  /\ cfg.times >= 1 =>
                       Len(r.report.delay_times) = (cfg.times - 1) \div cfg.k
             /\ (j = cur /\ pc = "r_sleep") => remaining <= cfg.fixed_delay

C2_Witness ==
    \E j \in DOMAIN runners :
       /\ IsFixedBlock(runners[j].config)
       /\ runners[j].config.k = 2
       /\ runners[j].config.times = 4
       /\ Decided(runners[j]) = 4
       /\ Len(runners[j].report.delay_times) = 1

\* C3: once a command has failed, the runner has left its loop with
\* failure_count = 1 and success_count = the index of the failed iteration:
\* no further command, no delay decision and no sleep for that iteration.
C3_FailureAborts ==
    \A j \in DOMAIN runners :
       LET r == runners[j] IN
       /\ r.report.failure_count \in {0, 1}
       /\ r.report.failure_count = 1 =>
            /\ ~Running(j)
            /\ j = cur => r.report.success_count = i
            /\ Decided(r) = r.report.success_count
            /\ Len(r.report.execution_times) = r.report.success_count + 1
            /\ Len(r.report.delay_times) <= r.report.success_count

C3_Witness ==
    /\ pc = "r_end"
    /\ self.report.failure_count = 1
    /\ self.report.success_count >= 1
    /\ self.config.times > self.report.success_count + 1

\* C4: without cancellation the driver runs every scenario in the declared
\* order, whatever the earlier scenarios' outcome: each scenario gets its own
\* runner, starting from a fresh report, and runs all its iterations unless
\* its own command fails or its own delay calculation raises.
C4_FailureIsLocal ==
    /\ (pc = "r_for" /\ i = 0) => self.report = ScenarioReport
    /\ \A j \in DOMAIN runners :
         /\ runners[j].name = j
         /\ runners[j].config = scenarios[j]
    /\ \A j \in DOMAIN reports : reports[j] = runners[j].report
    /\ (pc \in {"m_final", "done", "exit1"} /\ ~stop_event) =>
         /\ Len(reports) = Len(scenarios)
         /\ \A j \in DOMAIN reports :
              (reports[j].failure_count = 0
                 /\ Decided(runners[j]) = reports[j].success_count) =>
                 reports[j].success_count = scenarios[j].times

C4_Witness ==
    /\ pc = "done"
    /\ ~stop_event
    /\ Len(reports) = 2
    /\ reports[1].failure_count = 1
    /\ reports[2].failure_count = 0
    /\ reports[2].success_count = scenarios[2].times
    /\ scenarios[2].times >= 1

\* The commands started so far, by runner j and in the whole run.
Started(j) == Executions(runners[j]) + (IF j = cur /\ pc = "r_cmd" THEN 1 ELSE 0)

RECURSIVE StartedUpTo(_)
StartedUpTo(n) == IF n = 0 THEN 0 ELSE Started(n) + StartedUpTo(n - 1)

CommandsStarted == StartedUpTo(Len(runners))

\* The parameters a policy kind requires.
Required(cfg) ==
    CASE cfg.type = "random_delay" -> {cfg.max_delay}
      [] cfg.type = "fixed_delay_block" -> {cfg.k, cfg.fixed_delay}
      [] cfg.type = "random_delay_block" -> {cfg.k, cfg.max_delay}
      [] cfg.type = "random_block_size_fixed_delay" ->
           {cfg.max_block_size, cfg.fixed_delay}
      [] cfg.type = "random_block_size_random_delay" ->
           {cfg.max_block_size, cfg.max_delay}
      [] OTHER -> {}

OutOfRange(v) == v # None /\ v <= 0

Invalid(cfg) ==
    \/ None \in Required(cfg)
    \/ OutOfRange(cfg.k)
    \/ OutOfRange(cfg.max_block_size)

\* C5: a configuration with a scenario whose blockSize or maxBlockSize is 0
\* or negative, or that lacks a parameter its policy kind requires, is
\* rejected before any command of any scenario is executed.
C5_InvalidRejectedFirst ==
    (\E j \in DOMAIN config : config[j].times # Missing /\ Invalid(config[j])) =>
       CommandsStarted = 0

\* C6: no command of a scenario with an unrecognised policy kind is ever
\* executed.
C6_UnknownKindRejected ==
    \A j \in DOMAIN runners :
       runners[j].config.type \notin KnownTypes => Started(j) = 0

\* C7: under random_block_size_fixed_delay with maxBlockSize = M and a
\* positive fixedDelay, at most M consecutive non-final iterations complete
\* without a pause.
C7_BlockAtMostMax ==
    \A j \in DOMAIN runners :
       LET r == runners[j]
           cfg == r.config
           M == cfg.max_block_size
       IN  (cfg.type = "random_block_size_fixed_delay" /\ M >= 1
              /\ cfg.fixed_delay > 0) =>
             \A n \in 1..Decided(r) :
                (n + M <= Decided(r) /\ n + M <= cfg.times - 1) =>
                   \E m \in n..(n + M) : r.delay_log[m] > 0

\* C8: under random_block_size_fixed_delay with maxBlockSize = 1 and
\* fixedDelay > 0 every iteration but the last is followed by a delay of
\* fixedDelay: times - 1 delays once all commands have succeeded.
IsDegenerateBlock(cfg) ==
    /\ cfg.type = "random_block_size_fixed_delay"
    /\ cfg.max_block_size = 1
    /\ cfg.fixed_delay > 0

C8_BlockOfOne ==
    \A j \in DOMAIN runners :
       LET r == runners[j]
           cfg == r.config
       IN  IsDegenerateBlock(cfg) =>
             /\ \A n \in 1..Decided(r) :
                  r.delay_log[n] = IF n - 1 < cfg.times - 1 THEN cfg.fixed_delay ELSE 0
             /\ r.report.delay_times = Positive(r.delay_log)
             /\ (r.report.success_count = cfg.times /\ ~(j = cur /\ pc = "r_delay")) =>
                  /\ Decided(r) = cfg.times
                  /\ cfg.times >= 1 => Len(r.report.delay_times) = cfg.times - 1

C8_Witness ==
    \E j \in DOMAIN runners :
       /\ IsDegenerateBlock(runners[j].config)
       /\ runners[j].config.times = 3
       /\ runners[j].report.success_count = 3
       /\ Len(runners[j].report.delay_times) = 2

\* C9: after stop() has been called no new command is issued, neither in the
\* current scenario nor in a later one.
C9_NoCommandAfterStop ==
    [][stop_event => ~(pc # "r_cmd" /\ pc' = "r_cmd")]_vars

\* C10: a runner that stop() has reached neither starts an inter-iteration
\* delay nor waits out the rest of one.
C10_DelayInterruptible ==
    [][(pc \in {"r_delay", "r_sleep"} /\ self.stop_event) =>
          ~(pc' = "r_sleep" /\ (pc = "r_delay" \/ remaining' < remaining))]_vars

\* The run got past load_config: an exit with status 1 from here on comes out
\* of print_final_report.
Loaded == idx >= 1

\* C11: after an interruption the run still emits the final report, and the
\* collected reports hold one report for every scenario that was started.
C11_ReportAfterInterruption ==
    (stop_event /\ Loaded) =>
       /\ pc # "exit1"
       /\ pc \in {"m_final", "done"} => Len(reports) = Len(runners)

\* C12: at most one command is in flight at any time; while one is, every
\* earlier command of the scenario has returned and been recorded, and every
\* earlier scenario's run has finished and handed over its report.
C12_OneCommandInFlight ==
    /\ in_flight \in {0, 1}
    /\ in_flight = 1 <=> pc = "r_cmd"
    /\ pc = "r_cmd" =>
         /\ Len(self.report.execution_times) = i
         /\ Executions(self) = i
         /\ Len(reports) = cur - 1

C12_Witness ==
    /\ pc = "r_cmd"
    /\ in_flight = 1
    /\ cur = 2
    /\ Executions(runners[1]) >= 1
    /\ i >= 1

\* The run of runner j is over: its report is with the driver.
Finished(j) == j <= Len(reports)

\* C13: a scenario with times = 0 executes no command, consults the delay
\* policy never, sleeps never, and its run returns a report with
\* success_count = 0 and failure_count = 0.
C13_ZeroTimes ==
    \A j \in DOMAIN runners :
       runners[j].config.times = 0 =>
          /\ runners[j].report = ScenarioReport
          /\ runners[j].delay_log = <<>>
          /\ j = cur => pc \notin {"r_submit", "r_cmd", "r_delay", "r_sleep"}
          /\ Finished(j) => reports[j] = ScenarioReport

C13_Witness ==
    /\ Len(reports) = 2
    /\ scenarios[2].times = 0
    /\ reports[2] = ScenarioReport
    /\ reports[1].success_count >= 1

\* C14: under no_delay every delay decided is 0, delay_times stays empty and
\* the runner never sleeps; a run that no failure and no stop() cut short has
\* executed exactly times commands.
C14_NoDelay ==
    \A j \in DOMAIN runners :
       LET r == runners[j] IN
       r.config.type = "no_delay" =>
          /\ \A n \in 1..Decided(r) : r.delay_log[n] = 0
          /\ r.report.delay_times = <<>>
          /\ j = cur => pc # "r_sleep"
          /\ Executions(r) <= r.config.times
          /\ Decided(r) =
                r.report.success_count - (IF j = cur /\ pc = "r_delay" THEN 1 ELSE 0)
          /\ (Finished(j) /\ r.report.failure_count = 0 /\ ~r.stop_event) =>
               /\ r.report.success_count = r.config.times
               /\ Len(r.report.execution_times) = r.config.times

C14_Witness ==
    /\ pc = "done"
    /\ cur = 1
    /\ self.config.type = "no_delay"
    /\ self.config.times = 3
    /\ ~self.stop_event
    /\ reports[1].success_count = 3
    /\ self.delay_log = <<0, 0, 0>>

\* C15: under random_delay with maxDelay = D >= 0 a delay is drawn after each
\* of the first times - 1 successful iterations, every one of them lies in
\* [0, D], and the delay after the final iteration is 0.
IsRandomDelay(cfg) == cfg.type = "random_delay" /\ cfg.max_delay >= 0

C15_RandomDelay ==
    \A j \in DOMAIN runners :
       LET r == runners[j]
           cfg == r.config
       IN  IsRandomDelay(cfg) =>
             /\ \A n \in 1..Decided(r) :
                  /\ r.delay_log[n] \in 0..cfg.max_delay
                  /\ n - 1 >= cfg.times - 1 => r.delay_log[n] = 0
             /\ r.report.delay_times = Positive(r.delay_log)
             /\ Len(r.report.delay_times) <= cfg.times - 1 \/ cfg.times = 0
             /\ Decided(r) =
                   r.report.success_count - (IF j = cur /\ pc = "r_delay" THEN 1 ELSE 0)
             /\ (j = cur /\ pc = "r_sleep") =>
                   /\ remaining <= cfg.max_delay
                   /\ i < cfg.times - 1

C15_Witness ==
    \E j \in DOMAIN runners :
       /\ IsRandomDelay(runners[j].config)
       /\ runners[j].config.times = 3
       /\ runners[j].config.max_delay = 2
       /\ runners[j].delay_log = <<2, 1, 0>>
       /\ runners[j].report.delay_times = <<2, 1>>

RECURSIVE SumSeq(_)
SumSeq(seq) == IF seq = <<>> THEN 0 ELSE Head(seq) + SumSeq(Tail(seq))

\* C16: a runner is never elsewhere than in its sleep while part of a decided
\* delay is still to elapse; when the command of iteration i starts, the
\* delays decided after iterations 0..i-1 have all been decided and slept in
\* full: execute(i), delay(i), execute(i+1).
C16_DelayBeforeNext ==
    /\ pc # "r_sleep" => remaining = 0
    /\ \A j \in DOMAIN runners :
         runners[j].slept + (IF j = cur THEN remaining ELSE 0)
            = SumSeq(runners[j].report.delay_times)
    /\ pc \in {"r_submit", "r_cmd"} =>
         /\ Decided(self) = i
         /\ self.report.delay_times = Positive(self.delay_log)
         /\ self.slept = SumSeq(self.delay_log)

C16_Witness ==
    /\ pc = "r_cmd"
    /\ i = 2
    /\ self.delay_log = <<2, 0>>
    /\ self.slept = 2

CountsInRange ==
    \A j \in DOMAIN runners :
       /\ runners[j].report.failure_count \in {0, 1}
       /\ runners[j].report.success_count >= 0
       /\ Executions(runners[j]) <= runners[j].config.times

\* C17: in every state of a scenario run failure_count is 0 or 1 and
\* success_count + failure_count <= times, and once failure_count is 1 no
\* step changes either counter again.
C17_CountsBounded ==
    [][/\ CountsInRange
       /\ CountsInRange'
       /\ \A j \in DOMAIN runners :
            runners[j].report.failure_count = 1 =>
               /\ runners'[j].report.failure_count = 1
               /\ runners'[j].report.success_count = runners[j].report.success_count]_vars

C17_Witness ==
    /\ Finished(1)
    /\ reports[1].failure_count = 1
    /\ reports[1].success_count = 2
    /\ scenarios[1].times = 4
    /\ pc = "done"

\* C18: every scenario run terminates: a runner in its loop eventually hands
\* its report to the driver, having executed at most times commands,
\* whichever way the loop is left.
C18_RunTerminates ==
    /\ [](\A j \in DOMAIN runners : Executions(runners[j]) <= runners[j].config.times)
    /\ \A n \in 1..MaxScen : (cur = n /\ InLoop) ~> Finished(n)

C18_Witness ==
    /\ pc = "m_for"
    /\ Finished(1)
    /\ runners[1].stop_event
    /\ reports[1].failure_count = 0
    /\ reports[1].success_count = 1
    /\ Len(reports[1].delay_times) = 1
    /\ scenarios[1].times = 3

\* C19: at every iteration boundary of a scenario run (the head of the loop,
\* and the point where the loop has been left) the number of recorded
\* execution times equals success_count + failure_count.
C19_TimesMatchCounts ==
    /\ pc \in {"r_for", "r_end"} =>
         Len(self.report.execution_times) = Executions(self)
    /\ \A j \in DOMAIN reports :
         Len(reports[j].execution_times)
            = reports[j].success_count + reports[j].failure_count

\* C20: once the configuration is loaded, run_scenarios prints the final
\* report and returns normally: the run never ends in the error exit.
C20_ReturnsNormally == Loaded => pc # "exit1"
====
